---- MODULE Spec2Model ----
(***************************************************************************)
(* cesa::vector<T, max_elements>: a fixed-capacity vector that keeps its   *)
(* elements in an in-object byte array (src/include/cesa/vector.hpp).      *)
(*                                                                         *)
(* A vector is a record                                                    *)
(*   exists     the object is between its constructor and its destructor   *)
(*   size_      the member size_                                           *)
(*   max_size_  the member max_size_                                       *)
(*   val, live  the member storage_, one entry per slot: the value the     *)
(*              slot holds (0: no determinate value: raw, destroyed or     *)
(*              moved-from) and whether an element's lifetime is running   *)
(*              there (constructed by placement new, not yet destroyed)    *)
(*   err, ret, viol   the outcome of the call in progress: the exception   *)
(*              it left with ("ub": the call ran into undefined behaviour  *)
(*              and the build trapped), the index of the iterator it       *)
(*              returned and the lifetime rules its steps broke.  They are *)
(*              reset when the call returns and kept in the variable last. *)
(*                                                                         *)
(* The element type T is a record of the traits the code dispatches on     *)
(* (if constexpr) and of what the build does where the code leaves the     *)
(* language's rules for objects of that type.                              *)
(***************************************************************************)
EXTENDS Integers, Sequences, FiniteSets, TLC

VARIABLES T, vecs, last

vars == <<T, vecs, last>>

\* Capacity of the modelled instantiation, vector<T, max_elements>.
max_elements == 3

\* Longest argument list of a range / initializer-list insert and of the
\* variadic constructor; largest count of insert(pos, count, value).
MaxLen == 2

MaxCount == 2

\* Element values.  The container never inspects a value, so two distinct
\* values tell every two positions apart.
Values == {1, 2}

Vecs == {"a", "b"}

Slots == 0..(max_elements - 1)

SeqsUpTo(n) == UNION {[1..k -> Values] : k \in 0..n}

\* template <typename T, ...>: the traits of T that the code branches on
\* (std::is_trivially_destructible_v, std::is_default_constructible_v), and
\* what T and the build do where the language leaves it open:
\*   forgiving   using an object outside its lifetime (assigning to it, moving
\*               from it, destroying it) goes through on the bytes that are
\*               there, and x = std::move(x) leaves x as it was;
\*               otherwise the first traps and the second empties x.
\* A trivially destructible T (int, a plain struct) is forgiving.
Types ==
  {t \in [trivDtor : BOOLEAN, defaultCtor : BOOLEAN, forgiving : BOOLEAN] :
     t.trivDtor => t.forgiving}

----------------------------------------------------------------------------
(* Steps on one slot *)

\* A step uses slot i as an object although no element lives there.
dead_use(v, what) ==
  [v EXCEPT !.viol = @ \cup {what},
            !.err = IF T.forgiving THEN @ ELSE "ub"]

\* new(ptr_at(i)) value_type(x)
construct(v, i, x) ==
  IF v.err # "none" THEN v
  ELSE [v EXCEPT !.val[i] = x, !.live[i] = TRUE,
                 !.viol = IF v.live[i] THEN @ \cup {"construct_live"} ELSE @]

\* ptr_at(i)->~value_type(); a trivial destructor does nothing, the slot
\* stays usable as it is
destroy(v, i) ==
  IF v.err # "none" \/ T.trivDtor THEN v
  ELSE LET w == IF v.live[i] THEN v ELSE dead_use(v, "destroy_dead")
       IN  IF w.err # "none" THEN w
           ELSE [w EXCEPT !.live[i] = FALSE, !.val[i] = 0]

\* *ptr_at(dst) = std::move(*ptr_at(src)), one step of std::move and of
\* std::move_backward
move_assign(v, dst, src) ==
  IF v.err # "none" THEN v
  ELSE LET w1 == IF v.live[src] THEN v ELSE dead_use(v, "move_from_dead")
           w2 == IF w1.live[dst] \/ w1.err # "none" THEN w1
                 ELSE dead_use(w1, "assign_dead")
       IN  IF w2.err # "none" THEN w2
           ELSE IF dst = src
           THEN [w2 EXCEPT !.val[dst] = IF T.forgiving THEN @ ELSE 0,
                           !.live[dst] = TRUE]
           ELSE [w2 EXCEPT !.val[dst] = v.val[src], !.live[dst] = TRUE,
                           !.val[src] = IF T.trivDtor THEN @ ELSE 0]

\* For a trivially destructible T the code runs no destructor: the elements
\* at and after size_ are given up when size_ recedes past them.
release(v) ==
  [v EXCEPT !.val = [i \in Slots |-> IF i < v.size_ THEN v.val[i] ELSE 0],
            !.live = [i \in Slots |-> i < v.size_ /\ v.live[i]]]

\* std::move(first, last, d_first) over slot indices
RECURSIVE std_move(_, _, _, _)
std_move(v, first, lst, d_first) ==
  IF first >= lst \/ v.err # "none" THEN v
  ELSE std_move(move_assign(v, d_first, first), first + 1, lst, d_first + 1)

\* std::move_backward(first, last, d_last) over slot indices
RECURSIVE std_move_backward(_, _, _, _)
std_move_backward(v, first, lst, d_last) ==
  IF first >= lst \/ v.err # "none" THEN v
  ELSE std_move_backward(move_assign(v, d_last - 1, lst - 1),
                         first, lst - 1, d_last - 1)

----------------------------------------------------------------------------
(* Member functions *)

size(v) == v.size_

max_size(v) == v.max_size_

empty(v) == v.size_ = 0

\* A slip: the bound check lets pos = size() through.
at_end_allowed(v, pos) ==
  IF v.err # "none" THEN v
  ELSE IF pos > v.size_ THEN [v EXCEPT !.err = "IndexOutOfRange"]
  ELSE [v EXCEPT !.ret = pos]

\* at(pos): throws std::out_of_range or returns a reference to the element in
\* slot pos
at(v, pos) ==
  IF v.err # "none" THEN v
  ELSE IF pos >= v.size_ THEN [v EXCEPT !.err = "IndexOutOfRange"]
  ELSE [v EXCEPT !.ret = pos]

\* A slip: pop_back on an empty vector reports an error.
pop_back_checked(v) ==
  IF v.err # "none" THEN v
  ELSE IF v.size_ > 0
  THEN LET w == [v EXCEPT !.size_ = @ - 1]
       IN  IF ~T.trivDtor THEN destroy(w, w.size_) ELSE release(w)
  ELSE [v EXCEPT !.err = "IndexOutOfRange"]

pop_back(v) ==
  IF v.err # "none" THEN v
  ELSE IF v.size_ > 0
  THEN LET w == [v EXCEPT !.size_ = @ - 1]
       IN  IF ~T.trivDtor THEN destroy(w, w.size_) ELSE release(w)
  ELSE v

RECURSIVE clear_loop(_)
clear_loop(v) ==
  IF v.size_ > 0 /\ v.err = "none" THEN clear_loop(pop_back(v)) ELSE v

clear(v) ==
  IF v.err # "none" THEN v
  ELSE IF T.trivDtor THEN release([v EXCEPT !.size_ = 0])
  ELSE clear_loop(v)

\* A slip: the capacity check comes after the element is written.
emplace_check_late(v, index, x) ==
  IF v.err # "none" THEN v
  ELSE IF v.size_ >= max_elements
  THEN [(IF index < max_elements THEN construct(v, index, x) ELSE v)
          EXCEPT !.err = "CapacityExceeded"]
  ELSE [construct(v, index, x) EXCEPT !.size_ = @ + 1, !.ret = index]

emplace(v, index, x) ==
  IF v.err # "none" THEN v
  ELSE IF v.size_ >= max_elements
  THEN [v EXCEPT !.err = "CapacityExceeded"]
  ELSE LET shifted == IF index < v.size_
                      THEN std_move_backward(v, index, v.size_, v.size_ + 1)
                      ELSE v
           built == construct(shifted, index, x)
       IN  IF built.err # "none" THEN built
           ELSE [built EXCEPT !.size_ = @ + 1, !.ret = index]

insert(v, index, x) == emplace(v, index, x)

\* insert(pos, count, value)
RECURSIVE insert_count(_, _, _, _)
insert_count(v, it, count, x) ==
  IF v.err # "none" THEN v
  ELSE IF count > 0
  THEN LET w == insert(v, it, x)
       IN  IF w.err # "none" THEN w
           ELSE insert_count(w, w.ret + 1, count - 1, x)
  ELSE [v EXCEPT !.ret = it]

\* A slip: the elements go in back to front, each at pos, and the position
\* of the first one is returned.
RECURSIVE insert_range_returns_first(_, _, _)
insert_range_returns_first(v, it, R) ==
  IF v.err # "none" THEN v
  ELSE IF R # <<>>
  THEN LET w == insert(v, it, R[Len(R)])
       IN  IF w.err # "none" THEN w
           ELSE insert_range_returns_first(w, w.ret, SubSeq(R, 1, Len(R) - 1))
  ELSE [v EXCEPT !.ret = it]

\* insert(pos, first, last); the range [first, last) is the sequence R
RECURSIVE insert_range(_, _, _)
insert_range(v, it, R) ==
  IF v.err # "none" THEN v
  ELSE IF R # <<>>
  THEN LET w == insert(v, it, Head(R))
       IN  IF w.err # "none" THEN w
           ELSE insert_range(w, w.ret + 1, Tail(R))
  ELSE [v EXCEPT !.ret = it]

\* insert(pos, initializer_list)
insert_ilist(v, index, R) == insert_range(v, index, R)

\* A slip: the elements are shifted but the last one is not popped.
erase_no_pop(v, index) ==
  IF v.err # "none" THEN v
  ELSE LET w == IF index < v.size_
                THEN std_move(v, index + 1, v.size_, index)
                ELSE v
       IN  IF w.err # "none" THEN w ELSE [w EXCEPT !.ret = index]

\* erase(pos)
erase(v, index) ==
  IF v.err # "none" THEN v
  ELSE LET w == IF index < v.size_
                THEN pop_back(std_move(v, index + 1, v.size_, index))
                ELSE v
       IN  IF w.err # "none" THEN w ELSE [w EXCEPT !.ret = index]

RECURSIVE destroy_range(_, _, _)
destroy_range(v, it, end) ==
  IF it >= end \/ v.err # "none" THEN v
  ELSE destroy_range(destroy(v, it), it + 1, end)

\* A slip: count taken as last - first + 1.
erase_range_off_by_one(v, index, count) ==
  IF v.err # "none" THEN v
  ELSE release([v EXCEPT !.size_ = @ - (count + 1), !.ret = index])

\* erase(first, last), with index = first - begin() and count = last - first
erase_range(v, index, count) ==
  IF v.err # "none" THEN v
  ELSE LET moved == IF index < v.size_
                    THEN std_move(v, index + count, v.size_, index)
                    ELSE v
           gone == IF index < v.size_ /\ ~T.defaultCtor
                   THEN destroy_range(moved, index, v.size_)
                   ELSE moved
           cut == [gone EXCEPT !.size_ = @ - count, !.ret = index]
       IN  IF gone.err # "none" THEN gone
           ELSE IF T.trivDtor THEN release(cut) ELSE cut

\* A slip: the element goes in at begin().
push_back_front(v, x) == emplace(v, 0, x)

push_back(v, x) == emplace(v, v.size_, x)

emplace_back(v, x) == emplace(v, v.size_, x)

----------------------------------------------------------------------------
(* Comparison *)

\* The function templates named operator== that take two vectors: the one the
\* class befriends, which the friend declaration puts in namespace cesa and
\* which has no definition, and the one defined at the end of the header,
\* after namespace cesa is closed.
Candidates == {"cesa::operator==", "::operator=="}

Friends == {"cesa::operator=="}

Defined == {"::operator=="}

\* The ways a program can name the operator: the expression a == b where
\* unqualified lookup reaches the global namespace, the same expression where
\* a nearer operator== hides the global one, and the qualified call.
Lookups == {"a == b", "a == b in a namespace with its own operator==",
            "::operator==(a, b)"}

\* Unqualified lookup finds what is visible at the call; argument-dependent
\* lookup adds the friends of the arguments' class.
lookup(way) ==
  CASE way = "a == b" -> {"::operator==", "cesa::operator=="}
    [] way = "a == b in a namespace with its own operator==" ->
         {"cesa::operator=="}
    [] way = "::operator==(a, b)" -> {"::operator=="}

\* std::equal(lhs.begin(), lhs.end(), rhs.begin())
std_equal(lhs, rhs) == \A k \in 0..(lhs.size_ - 1) : lhs.val[k] = rhs.val[k]

\* operator==(lhs, rhs) as the build resolves it: both templates have the same
\* signature, so neither is the better match; the body reads the private
\* member size_; the result is the value of the call or the reason the
\* program does not build.
operator_eq(lhs, rhs, way) ==
  LET found == lookup(way)
  IN  IF Cardinality(found) > 1 THEN "ambiguous overload"
      ELSE IF found \cap Defined = {} THEN "undefined reference"
      ELSE IF found \cap Friends = {} THEN "size_ is private"
      ELSE IF lhs.size_ = rhs.size_ /\ std_equal(lhs, rhs)
      THEN "true" ELSE "false"

----------------------------------------------------------------------------
(* Construction, destruction, assignment *)

NoVal == [i \in Slots |-> 0]

NoLive == [i \in Slots |-> FALSE]

\* explicit constexpr vector() noexcept = default, with the members'
\* default initializers
Fresh ==
  [exists |-> TRUE, size_ |-> 0, max_size_ |-> max_elements,
   val |-> NoVal, live |-> NoLive, err |-> "none", ret |-> 0, viol |-> {}]

\* The storage of an object whose destructor has run.
Gone == [Fresh EXCEPT !.exists = FALSE]

\* vector(Args &&... args): ((emplace_back(args)), ...)
RECURSIVE emplace_all(_, _)
emplace_all(v, R) ==
  IF R = <<>> \/ v.err # "none" THEN v
  ELSE emplace_all(emplace_back(v, Head(R)), Tail(R))

\* for (i = 0; i < other.size_; ++i) emplace_back(*other.ptr_at(i));
RECURSIVE copy_elems(_, _, _)
copy_elems(d, s, i) ==
  IF i >= s.size_ \/ d.err # "none" THEN d
  ELSE LET d1 == IF s.live[i] THEN d ELSE dead_use(d, "read_dead")
       IN  copy_elems(emplace_back(d1, s.val[i]), s, i + 1)

\* A slip: the copy loop starts at the second element.
copy_construct_from_second(d, s) ==
  LET w == copy_elems(d, s, 1)
  IN  IF w.err # "none" THEN w ELSE [w EXCEPT !.size_ = s.size_]

\* vector(const vector &other), run on the new object d
copy_construct(d, s) ==
  LET w == copy_elems(d, s, 0)
  IN  IF w.err # "none" THEN w ELSE [w EXCEPT !.size_ = s.size_]

\* for (i = 0; i < other.size_; ++i) emplace_back(std::move(*other.ptr_at(i)));
\* the pair is <<this, other>>
RECURSIVE move_elems(_, _, _)
move_elems(d, s, i) ==
  IF i >= s.size_ \/ d.err # "none" THEN <<d, s>>
  ELSE LET d1 == IF s.live[i] THEN d ELSE dead_use(d, "move_from_dead")
           s1 == [s EXCEPT !.val[i] = IF T.trivDtor THEN @ ELSE 0]
       IN  move_elems(emplace_back(d1, s.val[i]),
                      IF d1.err # "none" THEN s ELSE s1, i + 1)

\* A slip: other.clear() is left out.
move_construct_keeps_other(d, s) ==
  LET p == move_elems(d, s, 0)
      w == p[1]
  IN  IF w.err # "none" THEN <<w, s>>
      ELSE <<[w EXCEPT !.size_ = s.size_], p[2]>>

\* vector(vector &&other), run on the new object d; the pair is <<this, other>>
move_construct(d, s) ==
  LET p == move_elems(d, s, 0)
      w == p[1]
      o == clear(p[2])
  IN  IF w.err # "none" THEN <<w, s>>
      ELSE <<[w EXCEPT !.size_ = s.size_, !.err = o.err,
                       !.viol = @ \cup o.viol],
             [o EXCEPT !.err = "none", !.viol = {}]>>

\* operator=(const vector &other), this != &other
copy_assign(d, s) == copy_construct(clear(d), s)

\* operator=(vector &&other), this != &other; the pair is <<this, other>>
move_assign_vec(d, s) == move_construct(clear(d), s)

\* operator=(const vector &other) with this == &other: the guard skips the body
copy_assign_self(v) == v

\* A slip: the guard is left out; clear() empties the vector before the loop
\* reads other.size_, which is its own size_.
move_assign_self_unguarded(v) == clear(v)

\* operator=(vector &&other) with this == &other: the guard skips the body
move_assign_self(v) == v

\* ~vector()
destructor(v) ==
  LET w == clear(v)
  IN  [w EXCEPT !.viol = IF \E i \in Slots : w.live[i]
                         THEN @ \cup {"leaked"} ELSE @]

----------------------------------------------------------------------------
(* The program: calls on two vector<T, max_elements> objects, a and b *)

\* The object as the call leaves it.
Settle(r) == [r EXCEPT !.err = "none", !.ret = 0, !.viol = {}]

\* What the last call was and how it ended: the member function, the object
\* it ran on, the other object of a copy or a move, the index of pos, the
\* number of elements it was given, the object's size_ before the call, the
\* index of the returned iterator, the exception and the broken lifetime rules.
Label(op, n, other, idx, cnt, r) ==
  [op |-> op, vec |-> n, other |-> other, idx |-> idx, cnt |-> cnt,
   was |-> vecs[n].size_, ret |-> IF r.err = "none" THEN r.ret ELSE 0,
   err |-> r.err, viol |-> r.viol]

\* A call on object n ends with n as r; a call that trapped ends the program.
Return(op, n, other, idx, cnt, r) ==
  /\ vecs' = IF r.err = "ub" THEN vecs ELSE [vecs EXCEPT ![n] = Settle(r)]
  /\ last' = Label(op, n, other, idx, cnt, r)
  /\ UNCHANGED T

\* A call on object n that also changes object m ends with them as p.
Return2(op, n, m, p) ==
  /\ vecs' = IF p[1].err = "ub" THEN vecs
             ELSE [vecs EXCEPT ![n] = Settle(p[1]), ![m] = Settle(p[2])]
  /\ last' = Label(op, n, m, 0, 0, p[1])
  /\ UNCHANGED T

\* begin() .. end() as a sequence
Contents(v) == [k \in 1..v.size_ |-> v.val[k - 1]]

\* The representation the member functions rely on: the slots below size_
\* hold live elements, the others hold none.
WellFormed(v) == \A i \in Slots : v.live[i] <=> i < v.size_

\* The program runs until a call traps.
Running == last.err # "ub"

\* A member function is called on an object that exists and whose
\* representation is intact; an object that a call has left otherwise is not
\* used again.
Usable(n) == Running /\ vecs[n].exists /\ WellFormed(vecs[n])

\* The object the single-object program works on; the program starts with it
\* default-constructed, any other object is yet to be constructed.
This == "a"

Init ==
  /\ T \in Types
  /\ vecs = [n \in Vecs |-> IF n = This THEN Fresh ELSE Gone]
  /\ last = [op |-> "vector", vec |-> "a", other |-> "a", idx |-> 0, cnt |-> 0,
             was |-> 0, ret |-> 0, err |-> "none", viol |-> {}]

DefaultConstruct(n) ==
  /\ Running /\ ~vecs[n].exists
  /\ Return("vector", n, n, 0, 0, Fresh)

VariadicConstruct(n, R) ==
  /\ Running /\ ~vecs[n].exists
  /\ Len(R) <= max_elements
  /\ Return("vector_args", n, n, 0, Len(R), emplace_all(Fresh, R))

CopyConstruct(n, m) ==
  /\ Running /\ ~vecs[n].exists /\ vecs[m].exists
  /\ Return("vector_copy", n, m, 0, 0, copy_construct(Fresh, vecs[m]))

MoveConstruct(n, m) ==
  /\ Running /\ ~vecs[n].exists /\ vecs[m].exists
  /\ Return2("vector_move", n, m, move_construct(Fresh, vecs[m]))

CopyAssign(n, m) ==
  /\ Usable(n) /\ Usable(m)
  /\ IF n # m
     THEN Return("copy_assign", n, m, 0, 0, copy_assign(vecs[n], vecs[m]))
     ELSE Return("copy_assign", n, m, 0, 0, copy_assign_self(vecs[n]))

MoveAssign(n, m) ==
  /\ Usable(n) /\ Usable(m)
  /\ IF n # m
     THEN Return2("move_assign", n, m, move_assign_vec(vecs[n], vecs[m]))
     ELSE Return("move_assign", n, m, 0, 0, move_assign_self(vecs[n]))

Destructor(n) ==
  /\ Usable(n)
  /\ LET r == destructor(vecs[n])
     IN  Return("destructor", n, n, 0, 0,
                IF r.err = "none" THEN [Gone EXCEPT !.viol = r.viol] ELSE r)

Clear(n) ==
  /\ Usable(n)
  /\ Return("clear", n, n, 0, 0, clear(vecs[n]))

\* insert(pos, const value_type &) and insert(pos, value_type &&)
Insert(n, i, x) ==
  /\ Usable(n) /\ i <= vecs[n].size_
  /\ Return("insert", n, n, i, 1, insert(vecs[n], i, x))

InsertCount(n, i, count, x) ==
  /\ Usable(n) /\ i <= vecs[n].size_
  /\ Return("insert_count", n, n, i, count, insert_count(vecs[n], i, count, x))

InsertRange(n, i, R) ==
  /\ Usable(n) /\ i <= vecs[n].size_
  /\ Return("insert_range", n, n, i, Len(R), insert_range(vecs[n], i, R))

InsertIlist(n, i, R) ==
  /\ Usable(n) /\ i <= vecs[n].size_
  /\ Return("insert_ilist", n, n, i, Len(R), insert_ilist(vecs[n], i, R))

Emplace(n, i, x) ==
  /\ Usable(n) /\ i <= vecs[n].size_
  /\ Return("emplace", n, n, i, 1, emplace(vecs[n], i, x))

\* erase(pos); pos = end() is outside the contract
Erase(n, i) ==
  /\ Usable(n) /\ i < vecs[n].size_
  /\ Return("erase", n, n, i, 1, erase(vecs[n], i))

\* erase(first, last) with begin() <= first <= last <= end()
EraseRange(n, f, l) ==
  /\ Usable(n) /\ f <= l /\ l <= vecs[n].size_
  /\ Return("erase_range", n, n, f, l - f, erase_range(vecs[n], f, l - f))

\* push_back(const value_type &) and push_back(value_type &&)
PushBack(n, x) ==
  /\ Usable(n)
  /\ Return("push_back", n, n, vecs[n].size_, 1, push_back(vecs[n], x))

EmplaceBack(n, x) ==
  /\ Usable(n)
  /\ Return("emplace_back", n, n, vecs[n].size_, 1, emplace_back(vecs[n], x))

PopBack(n) ==
  /\ Usable(n)
  /\ Return("pop_back", n, n, 0, 0, pop_back(vecs[n]))

\* at(pos), pos any size_type value
At(n, pos) ==
  /\ Usable(n)
  /\ Return("at", n, n, pos, 0, at(vecs[n], pos))

\* A program that uses the whole interface of one object.
Next ==
  \/ DefaultConstruct(This)
  \/ \E R \in SeqsUpTo(MaxLen) : VariadicConstruct(This, R)
  \/ Destructor(This)
  \/ Clear(This)
  \/ \E i \in 0..max_elements, x \in Values : Insert(This, i, x)
  \/ \E i \in 0..max_elements, c \in 0..MaxCount, x \in Values :
       InsertCount(This, i, c, x)
  \/ \E i \in 0..max_elements, R \in SeqsUpTo(MaxLen) : InsertRange(This, i, R)
  \/ \E i \in 0..max_elements, R \in SeqsUpTo(MaxLen) : InsertIlist(This, i, R)
  \/ \E i \in 0..max_elements, x \in Values : Emplace(This, i, x)
  \/ \E i \in 0..max_elements : Erase(This, i)
  \/ \E f \in 0..max_elements, l \in 0..max_elements : EraseRange(This, f, l)
  \/ \E x \in Values : PushBack(This, x)
  \/ \E x \in Values : EmplaceBack(This, x)
  \/ PopBack(This)
  \/ \E pos \in 0..(max_elements + 1) : At(This, pos)

Spec == Init /\ [][Next]_vars

\* A program that builds two objects up and copies and moves between them.
NextPair ==
  \/ \E n \in Vecs : DefaultConstruct(n)
  \/ \E n \in Vecs, R \in SeqsUpTo(MaxLen) : VariadicConstruct(n, R)
  \/ \E n \in Vecs, m \in Vecs : CopyConstruct(n, m)
  \/ \E n \in Vecs, m \in Vecs : MoveConstruct(n, m)
  \/ \E n \in Vecs, m \in Vecs : CopyAssign(n, m)
  \/ \E n \in Vecs, m \in Vecs : MoveAssign(n, m)
  \/ \E n \in Vecs : Destructor(n)
  \/ \E n \in Vecs : Clear(n)
  \/ \E n \in Vecs, x \in Values : PushBack(n, x)
  \/ \E n \in Vecs : PopBack(n)

SpecPair == Init /\ [][NextPair]_vars

----------------------------------------------------------------------------
(* Properties *)

\* The objects that exist, and those among them whose representation is intact.
Objs == {n \in Vecs : vecs[n].exists}

Sound == {n \in Objs : WellFormed(vecs[n])}

\* S with the sequence R put in before index i (0-based)
InsertAt(S, i, R) == SubSeq(S, 1, i) \o R \o SubSeq(S, i + 1, Len(S))

\* S without the elements at indices f .. l-1 (0-based)
Without(S, f, l) == SubSeq(S, 1, f) \o SubSeq(S, l + 1, Len(S))

Repeat(count, x) == [k \in 1..count |-> x]

\* Calling push_back on v over and over, with any values, after `done` calls
\* have succeeded from a vector of size `from`: while there is room each call
\* succeeds, appends its value and leaves the rest in place; the first call
\* that throws is the one after max_elements - from successes, throws
\* CapacityExceeded and leaves the vector as it was.
RECURSIVE PushBacksFill(_, _, _)
PushBacksFill(v, from, done) ==
  \A x \in Values :
    LET r == push_back(v, x)
    IN  IF done < max_elements - from
        THEN /\ r.err = "none"
             /\ size(r) = size(v) + 1
             /\ Contents(r) = Contents(v) \o <<x>>
             /\ PushBacksFill(Settle(r), from, done + 1)
        ELSE /\ r.err = "CapacityExceeded"
             /\ size(r) = size(v) /\ size(r) = max_size(r)
             /\ Contents(r) = Contents(v)

InBounds(v) ==
  0 <= size(v) /\ size(v) <= max_size(v) /\ max_size(v) = max_elements

\* C1: in every state the program reaches, whatever calls it made and however
\* they ended, 0 <= size() <= max_size() and max_size() is max_elements; and
\* copying or moving the object, or assigning to it or from it, leaves both
\* objects of the call within these bounds.
Inv_C1_SizeWithinBounds ==
  \A n \in Vecs :
    /\ InBounds(vecs[n])
    /\ vecs[n].exists =>
         LET v == vecs[n]
             mc == move_construct(Fresh, v)
         IN  /\ InBounds(copy_construct(Fresh, v))
             /\ InBounds(mc[1]) /\ InBounds(mc[2])
             /\ \A k \in 0..max_elements :
                  LET o == emplace_all(Fresh, Repeat(k, 1))
                      ma == move_assign_vec(v, o)
                      mb == move_assign_vec(o, v)
                  IN  /\ InBounds(o)
                      /\ InBounds(copy_assign(v, o))
                      /\ InBounds(copy_assign(o, v))
                      /\ InBounds(ma[1]) /\ InBounds(ma[2])
                      /\ InBounds(mb[1]) /\ InBounds(mb[2])

\* A range insert into the middle ran out of room: size() stopped at max_size().
Wit_C1_FullAfterFailedInsert ==
  /\ last.op = "insert_range" /\ last.err = "CapacityExceeded"
  /\ last.idx < last.was /\ last.was < max_elements
  /\ vecs[This].size_ = max_elements

\* C2: after every call that returned or threw, the slots below size() hold a
\* live element and the slots from size() on hold none.
Inv_C2_LiveExactlyBelowSize ==
  \A n \in Objs : Running => WellFormed(vecs[n])

\* C3: on a full vector emplace, insert, push_back and emplace_back of one
\* element, at any position, throw CapacityExceeded and leave the object
\* exactly as it was.
Inv_C3_FullInsertThrowsUnchanged ==
  \A n \in Objs :
    LET v == vecs[n]
    IN  size(v) = max_elements =>
          \A x \in Values :
            /\ \A i \in 0..size(v) :
                 \A r \in {emplace(v, i, x), insert(v, i, x)} :
                   r.err = "CapacityExceeded" /\ Settle(r) = v
            /\ \A r \in {push_back(v, x), emplace_back(v, x)} :
                 r.err = "CapacityExceeded" /\ Settle(r) = v

\* An insert into the middle of a full vector threw.
Wit_C3_ThrownOnFull ==
  /\ last.op \in {"emplace", "insert"} /\ last.err = "CapacityExceeded"
  /\ last.idx < last.was /\ last.was = max_elements
  /\ vecs[This].size_ = max_elements

\* C4: from size() = s, the first max_elements - s push_back calls each succeed,
\* append their value and leave what was there in place; the next one throws
\* CapacityExceeded and leaves size() at max_elements.
Inv_C4_PushBackUntilFull ==
  \A n \in Objs : PushBacksFill(vecs[n], size(vecs[n]), 0)

\* push_back filled the vector, and the push_back after that threw.
Wit_C4_PushBackOnFullThrew ==
  /\ last.op = "push_back" /\ last.err = "CapacityExceeded"
  /\ last.was = max_elements

\* C5: on a vector with room, emplace and insert of one value at index i give
\* the old contents with the value put in before index i, size() one larger,
\* and return the position with index i.
Inv_C5_EmplaceShiftsRight ==
  \A n \in Sound :
    LET v == vecs[n]
    IN  size(v) < max_elements =>
          \A i \in 0..size(v), x \in Values :
            \A r \in {emplace(v, i, x), insert(v, i, x)} :
              /\ r.err = "none"
              /\ Contents(r) = InsertAt(Contents(v), i, <<x>>)
              /\ size(r) = size(v) + 1
              /\ r.ret = i

\* C6: a count, range or initializer-list insert of R at index i that fits
\* gives the old contents with R put in before index i, in order, and size()
\* larger by the length of R.
Inv_C6_MultiInsertInOrder ==
  \A n \in Sound :
    LET v == vecs[n]
    IN  \A i \in 0..size(v) :
          /\ \A R \in SeqsUpTo(MaxLen) :
               size(v) + Len(R) <= max_elements =>
                 \A r \in {insert_range(v, i, R), insert_ilist(v, i, R)} :
                   /\ r.err = "none"
                   /\ Contents(r) = InsertAt(Contents(v), i, R)
                   /\ size(r) = size(v) + Len(R)
          /\ \A c \in 0..MaxCount, x \in Values :
               size(v) + c <= max_elements =>
                 LET r == insert_count(v, i, c, x)
                 IN  /\ r.err = "none"
                     /\ Contents(r) = InsertAt(Contents(v), i, Repeat(c, x))
                     /\ size(r) = size(v) + c

\* C7: a count, range or initializer-list insert of R at index i that does not
\* fit throws CapacityExceeded with size() = max_elements and the first
\* max_elements - size() elements of R put in before index i, nothing else
\* changed.
Inv_C7_MultiInsertWhatFits ==
  \A n \in Sound :
    LET v == vecs[n]
        room == max_elements - size(v)
    IN  \A i \in 0..size(v) :
          /\ \A R \in SeqsUpTo(MaxLen) :
               Len(R) > room =>
                 \A r \in {insert_range(v, i, R), insert_ilist(v, i, R)} :
                   /\ r.err = "CapacityExceeded"
                   /\ size(r) = max_elements
                   /\ Contents(r) = InsertAt(Contents(v), i, SubSeq(R, 1, room))
          /\ \A c \in 0..MaxCount, x \in Values :
               c > room =>
                 LET r == insert_count(v, i, c, x)
                 IN  /\ r.err = "CapacityExceeded"
                     /\ size(r) = max_elements
                     /\ Contents(r) = InsertAt(Contents(v), i, Repeat(room, x))

\* C8: erase(begin() + i) with i < size() gives the old contents without the
\* element at index i, in order, size() one smaller, returns the position with
\* index i, and leaves no live element in the slot that fell out of use.
Inv_C8_EraseShiftsLeft ==
  \A n \in Sound :
    LET v == vecs[n]
    IN  \A i \in 0..(size(v) - 1) :
          LET r == erase(v, i)
          IN  /\ r.err = "none"
              /\ size(r) = size(v) - 1
              /\ Contents(r) = Without(Contents(v), i, i + 1)
              /\ r.ret = i
              /\ ~r.live[size(v) - 1]
              /\ WellFormed(r)

\* An element with elements after it was erased from a vector whose element
\* type has a destructor to run.
Wit_C8_ErasedInTheMiddle ==
  /\ last.op = "erase" /\ last.err = "none"
  /\ last.idx + 1 < last.was
  /\ ~T.trivDtor
  /\ vecs[This].size_ = last.was - 1

\* C9: erase(begin() + f, begin() + l) with f <= l <= size() gives the old
\* contents without the elements at f .. l-1, in order, size() smaller by
\* l - f, and returns the position with index f.
Inv_C9_EraseRangeClosesGap ==
  \A n \in Sound :
    LET v == vecs[n]
    IN  \A f \in 0..size(v) :
          \A l \in f..size(v) :
            LET r == erase_range(v, f, l - f)
            IN  /\ r.err = "none"
                /\ size(r) = size(v) - (l - f)
                /\ Contents(r) = Without(Contents(v), f, l)
                /\ r.ret = f

\* C10: moving a vector into a new one, or into another one whatever that
\* holds, leaves the source with size() = 0 and no live element, and the
\* destination with the source's former size and contents; what the
\* destination held is destroyed before the elements are moved in.
Inv_C10_MoveEmptiesSource ==
  \A n \in Sound, m \in Sound :
    n # m =>
      LET d == vecs[n]
          s == vecs[m]
          c == clear(d)
      IN  /\ size(c) = 0 /\ \A i \in Slots : ~c.live[i]
          /\ \A p \in {move_assign_vec(d, s), move_construct(Fresh, s)} :
               /\ p[1].err = "none" /\ p[1].viol = {}
               /\ size(p[1]) = size(s)
               /\ Contents(p[1]) = Contents(s)
               /\ WellFormed(p[1])
               /\ size(p[2]) = 0
               /\ \A i \in Slots : ~p[2].live[i]

\* A vector that held elements was move-assigned from another one that held
\* elements.
Wit_C10_MovedOverElements ==
  /\ last.op = "move_assign" /\ last.vec # last.other /\ last.err = "none"
  /\ last.was > 0
  /\ vecs[last.vec].size_ > 0
  /\ vecs[last.other].size_ = 0

\* C11: a copy construction or copy assignment from another object gives the
\* destination the source's size() and elements, in order, and leaves the
\* source as it was; and the objects share no storage: a call on one object
\* changes no other object, except that a move empties its source.
Prop_C11_CopyEqualNoAliasing ==
  [][/\ \A m \in Vecs :
          m # last'.vec /\ ~(last'.op \in {"vector_move", "move_assign"}
                               /\ m = last'.other)
            => vecs'[m] = vecs[m]
     /\ last'.op \in {"vector_copy", "copy_assign"} /\ last'.vec # last'.other
          => /\ last'.err = "none" /\ last'.viol = {}
             /\ size(vecs'[last'.vec]) = size(vecs[last'.other])
             /\ Contents(vecs'[last'.vec]) = Contents(vecs[last'.other])
             /\ WellFormed(vecs'[last'.vec])
             /\ vecs'[last'.other] = vecs[last'.other]]_vars

\* A vector that held elements was copy-assigned from another one that held
\* a different number of elements, and now holds what the source holds.
Wit_C11_CopiedOverElements ==
  /\ last.op = "copy_assign" /\ last.vec # last.other /\ last.err = "none"
  /\ last.was > 0 /\ size(vecs[last.vec]) > 0
  /\ size(vecs[last.vec]) # last.was
  /\ Contents(vecs[last.vec]) = Contents(vecs[last.other])

\* C12: however the program names it, a == b is true exactly when the two
\* vectors have the same size() and equal elements index by index, and false
\* otherwise; so a == a is true and a == b is b == a.
Inv_C12_EqualBySizeAndElements ==
  \A n \in Sound, m \in Sound, way \in Lookups :
    LET a == vecs[n]
        b == vecs[m]
    IN  /\ operator_eq(a, b, way) =
             (IF size(a) = size(b) /\ Contents(a) = Contents(b)
              THEN "true" ELSE "false")
        /\ operator_eq(a, a, way) = "true"
        /\ operator_eq(a, b, way) = operator_eq(b, a, way)

\* C13: pop_back on a vector that holds elements ends the last element's
\* lifetime, makes size() one smaller and leaves the other elements as they
\* were; on an empty vector it does nothing and reports nothing.
Inv_C13_PopBackLastOrNothing ==
  \A n \in Sound :
    LET v == vecs[n]
        r == pop_back(v)
    IN  /\ r.err = "none" /\ r.viol = {}
        /\ size(v) > 0 =>
             /\ size(r) = size(v) - 1
             /\ Contents(r) = SubSeq(Contents(v), 1, size(v) - 1)
             /\ ~r.live[size(v) - 1]
             /\ \A i \in 0..(size(v) - 2) : r.live[i] /\ r.val[i] = v.val[i]
             /\ WellFormed(r)
        /\ size(v) = 0 => r = v /\ empty(r)

\* pop_back was called on an empty vector of elements that have a destructor
\* to run, and returned.
Wit_C13_PopBackOnEmpty ==
  /\ last.op = "pop_back" /\ last.was = 0 /\ last.err = "none"
  /\ ~T.trivDtor
  /\ vecs[This].exists /\ size(vecs[This]) = 0

\* C14: at(i) throws IndexOutOfRange exactly when i >= size(), and otherwise
\* returns the live element in slot i; either way the object is as it was.
Inv_C14_AtChecksIndex ==
  \A n \in Sound :
    LET v == vecs[n]
    IN  \A i \in 0..(max_elements + 1) :
          LET r == at(v, i)
          IN  /\ r.err \in {"none", "IndexOutOfRange"}
              /\ (r.err = "IndexOutOfRange") <=> (i >= size(v))
              /\ r.err = "none" => r.ret = i /\ r.live[i] /\ r.val[i] = v.val[i]
              /\ Settle(r) = v

\* at was called on a vector that holds elements, with an index inside the
\* capacity and not below size(), and threw.
Wit_C14_AtPastTheEndThrew ==
  /\ last.op = "at" /\ last.err = "IndexOutOfRange"
  /\ last.was > 0 /\ last.idx >= last.was /\ last.idx < max_elements
  /\ size(vecs[This]) = last.was

\* Every element of v has been destroyed, once: the call ended normally, broke
\* no lifetime rule, and left size() = 0 and no live element in any slot.
AllDestroyed(r) ==
  /\ r.err = "none" /\ r.viol = {}
  /\ size(r) = 0 /\ empty(r)
  /\ \A i \in Slots : ~r.live[i]

\* C15: from any state the program reaches, clear() leaves size() = 0, empty()
\* true and every element destroyed once, none left live; and so does the
\* destructor.
Inv_C15_ClearAndDestructorLeaveNoneLive ==
  \A n \in Objs :
    AllDestroyed(clear(vecs[n])) /\ AllDestroyed(destructor(vecs[n]))

\* C16: for every element type, erase(begin() + f, begin() + l) with
\* f <= l <= size() ends the lifetime of the elements in the l - f trailing
\* slots that fall out of use and of no other: afterwards the slots below the
\* new size() hold live elements, the slots from there on hold none, no
\* lifetime rule was broken, and with f = l the object is as it was.
Inv_C16_EraseRangeDestroysTrailing ==
  \A n \in Sound :
    LET v == vecs[n]
    IN  \A f \in 0..size(v) :
          \A l \in f..size(v) :
            LET r == erase_range(v, f, l - f)
                kept == size(v) - (l - f)
            IN  /\ r.err = "none" /\ r.viol = {}
                /\ \A i \in Slots : r.live[i] <=> i < kept
                /\ f = l => Settle(r) = v

\* C17: emplace before an element of a vector with room never assigns to a
\* slot that holds no live element and never constructs an element over a
\* slot that holds a live one, and runs into no undefined behaviour.
Inv_C17_EmplaceShiftRespectsLifetimes ==
  \A n \in Sound :
    LET v == vecs[n]
    IN  size(v) < max_elements =>
          \A i \in 0..(size(v) - 1), x \in Values :
            LET r == emplace(v, i, x)
            IN  /\ r.err = "none"
                /\ "assign_dead" \notin r.viol
                /\ "construct_live" \notin r.viol

\* C18: copy-assigning or move-assigning a vector to itself changes nothing:
\* the call ends normally and the object, its size() and its elements, live
\* as before, are as they were.
Prop_C18_SelfAssignmentNoOp ==
  [][last'.op \in {"copy_assign", "move_assign"} /\ last'.vec = last'.other
       => /\ last'.err = "none" /\ last'.viol = {}
          /\ vecs' = vecs
          /\ size(vecs'[last'.vec]) = last'.was
          /\ WellFormed(vecs'[last'.vec])]_vars

\* A vector that holds elements with a destructor to run was move-assigned to
\* itself and still holds them.
Wit_C18_SelfMoveKeptElements ==
  /\ last.op = "move_assign" /\ last.vec = last.other /\ last.err = "none"
  /\ ~T.trivDtor
  /\ last.was > 0 /\ size(vecs[last.vec]) = last.was

\* C19: a count, range or initializer-list insert of k elements at index i
\* that succeeds returns the position with index i + k, one past the last
\* element it put in, and so index i when k = 0; insert and emplace of one
\* element return index i, the position of the new element.  An insert that
\* fits succeeds when it is at end(), and anywhere when the element type
\* tolerates the shift.
Inv_C19_MultiInsertReturnsPastLast ==
  \A n \in Sound :
    LET v == vecs[n]
        Fits(i, k) == /\ size(v) + k <= max_elements
                      /\ T.forgiving \/ i = size(v) \/ k = 0
    IN  \A i \in 0..size(v) :
          /\ \A R \in SeqsUpTo(MaxLen) :
               \A r \in {insert_range(v, i, R), insert_ilist(v, i, R)} :
                 /\ Fits(i, Len(R)) => r.err = "none"
                 /\ r.err = "none" => r.ret = i + Len(R)
          /\ \A c \in 0..MaxCount, x \in Values :
               LET r == insert_count(v, i, c, x)
               IN  /\ Fits(i, c) => r.err = "none"
                   /\ r.err = "none" => r.ret = i + c
          /\ \A x \in Values :
               \A r \in {insert(v, i, x), emplace(v, i, x)} :
                 /\ Fits(i, 1) => r.err = "none"
                 /\ r.err = "none" => r.ret = i

\* A range insert of two elements before an element returned the position two
\* past the one it was given.
Wit_C19_ReturnedPastInserted ==
  /\ last.op \in {"insert_range", "insert_ilist"} /\ last.err = "none"
  /\ last.cnt = 2 /\ last.idx < last.was
  /\ last.ret = last.idx + 2
  /\ size(vecs[This]) = last.was + 2

====
